---- MODULE Spec2Model ----
(***************************************************************************)
(* A node of the betawin1/blockchain repository, in its two bindings:      *)
(*   src/blockchain.py         the socket node (CLI + TCP handler)         *)
(*   src/blockchain_render.py  the HTTP node (Flask routes)                *)
(*                                                                         *)
(* One node is modelled with its whole state (chain, pending_tx, balances, *)
(* total_minted, peers).  Its peers are the environment: they deliver      *)
(* NEW_TX / NEW_BLOCK messages drawn from bounded candidate sets, and the  *)
(* messages the node sends to them are collected in outbox.  Operations    *)
(* run atomically in Spec; SpecThreads interleaves the threads of the      *)
(* socket node between their reads and writes of the shared fields.        *)
(*                                                                         *)
(* Amounts are counted in quarter coins, so that BLOCK_REWARD = 6.25 is    *)
(* the integer 25; every amount of the model is a multiple of 0.25 below   *)
(* 2^53, for which Python's float arithmetic is exact.                     *)
(***************************************************************************)
EXTENDS Integers, Sequences, FiniteSets, TLC

\* ----- CONFIGURATION (quarter coins) -----
MAX_SUPPLY == 21000000 * 4
BLOCK_REWARD == 25
DIFFICULTY == 4

\* ----- bounds of the model -----
MaxChain == 3        \* blocks in the chain, genesis included
MaxPending == 2      \* transactions in pending_tx
MaxTime == 2         \* readings of time.time() are 1..MaxTime
NoncePeriod == 2     \* the stand-in digest meets DIFFICULTY once per NoncePeriod nonces

Address == {"A", "B"}
AllPeers == {"p1", "p2"}
Nonces == 0 .. (NoncePeriod - 1)

\* the transactions clients and peers submit: a payment each way, and one with
\* a negative amount
Tx == { [sender |-> "A", recipient |-> "B", amount |-> 20],
        [sender |-> "B", recipient |-> "A", amount |-> 20],
        [sender |-> "A", recipient |-> "B", amount |-> -20] }
\* the transaction lists of the blocks peers send
TxLists == { <<>>, << [sender |-> "B", recipient |-> "A", amount |-> 20] >> }

Min(a, b) == IF a < b THEN a ELSE b

VARIABLES binding,       \* "socket" (blockchain.py) or "http" (blockchain_render.py)
          wallet,        \* args.wallet of the socket node
          chain, pending_tx, balances, total_minted, peers,  \* Blockchain's fields
          now,           \* the current reading of time.time()
          outbox,        \* the messages the last operation sent, in order
          result,        \* how the last operation ended
          threads        \* where each thread of the socket node stands, with its locals

vars == <<binding, wallet, chain, pending_tx, balances, total_minted, peers,
          now, outbox, result, threads>>

\* ----- BLOCKCHAIN CORE -----

\* '0'*64
ZeroHash == [zeros |-> 64, pre |-> <<>>]

\* The number of leading '0' hex characters of the SHA-256 digest: a fixed
\* function of the hashed fields, which reaches DIFFICULTY for one nonce in
\* every NoncePeriod and stays below it otherwise.
LeadingZeros(b) ==
  LET mix == (b.index + b.prev_hash.zeros + b.timestamp + Len(b.transactions)
              + b.nonce) % NoncePeriod
  IN  IF mix = 0 THEN DIFFICULTY ELSE (mix - 1) % DIFFICULTY

\* Block.compute_hash: SHA-256 of the canonical JSON of the five fields.  The
\* digest is kept as its preimage (no collisions) with its leading zeros.
compute_hash(b) ==
  [zeros |-> LeadingZeros(b),
   pre   |-> <<b.index, b.prev_hash, b.timestamp, b.transactions, b.nonce>>]

\* Block.__init__; timestamp 0 stands for a falsy timestamp (None, 0), which
\* the constructor replaces by time.time().
Block(index, prev_hash, transactions, timestamp, nonce, clock) ==
  LET b == [index |-> index, prev_hash |-> prev_hash,
            timestamp |-> IF timestamp = 0 THEN clock ELSE timestamp,
            transactions |-> transactions, nonce |-> nonce]
  IN  [index |-> b.index, prev_hash |-> b.prev_hash, timestamp |-> b.timestamp,
       transactions |-> b.transactions, nonce |-> b.nonce,
       hash |-> compute_hash(b)]

\* Block.mine: increment the nonce until the digest starts with '0'*difficulty.
RECURSIVE mine(_, _)
mine(block, difficulty) ==
  IF block.hash.zeros >= difficulty THEN block
  ELSE LET next == [block EXCEPT !.nonce = @ + 1]
       IN  mine([next EXCEPT !.hash = compute_hash(next)], difficulty)

\* Blockchain.create_genesis
create_genesis(clock) == << Block(0, ZeroHash, <<>>, 0, 0, clock) >>

\* for tx in ...: balances[sender] -= amount; balances[recipient] += amount
RECURSIVE ApplyTransactions(_, _)
ApplyTransactions(bal, txs) ==
  IF txs = <<>> THEN bal
  ELSE LET tx == Head(txs)
           debited == [bal EXCEPT ![tx.sender] = @ - tx.amount]
       IN  ApplyTransactions([debited EXCEPT ![tx.recipient] = @ + tx.amount],
                             Tail(txs))

\* Reward with the cap forgotten.
RewardUncapped(minted) == BLOCK_REWARD

\* min(BLOCK_REWARD, MAX_SUPPLY - self.total_minted)
Reward(minted) == Min(BLOCK_REWARD, MAX_SUPPLY - minted)

\* add_transaction with the balance check forgotten.
add_transaction_Unchecked(bal, pending, sender, recipient, amount) ==
  LET tx == [sender |-> sender, recipient |-> recipient, amount |-> amount]
  IN  [raised |-> "none", pending_tx |-> Append(pending, tx), tx |-> tx]

\* add_transaction testing the balance left after the pending debits of the
\* sender (a mempool that reserves balance).
add_transaction_Reserving(bal, pending, sender, recipient, amount) ==
  LET tx == [sender |-> sender, recipient |-> recipient, amount |-> amount]
      left == ApplyTransactions(bal, pending)[sender]
  IN  IF left < amount
      THEN [raised |-> "ValueError", pending_tx |-> pending, tx |-> tx]
      ELSE [raised |-> "none", pending_tx |-> Append(pending, tx), tx |-> tx]

\* Blockchain.add_transaction up to save_state: the raised exception, or the
\* transaction appended to pending_tx.
add_transaction(bal, pending, sender, recipient, amount) ==
  LET tx == [sender |-> sender, recipient |-> recipient, amount |-> amount]
  IN  IF bal[sender] < amount
      THEN [raised |-> "ValueError", pending_tx |-> pending, tx |-> tx]
      ELSE [raised |-> "none", pending_tx |-> Append(pending, tx), tx |-> tx]

\* mine_pending putting the mined block in the place of the head.
mine_pending_ReplaceHead(ch, pending, bal, minted, miner_address, clock) ==
  LET last_hash == ch[Len(ch)].hash
      block == mine(Block(Len(ch), last_hash, pending, 0, 0, clock), DIFFICULTY)
      reward == Reward(minted)
      credited == [bal EXCEPT ![miner_address] = @ + reward]
  IN  [chain |-> IF Len(ch) > 1 THEN [ch EXCEPT ![Len(ch)] = block]
                 ELSE Append(ch, block),
       balances |-> ApplyTransactions(credited, pending),
       total_minted |-> minted + reward,
       pending_tx |-> <<>>,
       block |-> block]

\* mine_pending with the loop over the transactions forgotten.
mine_pending_NoApply(ch, pending, bal, minted, miner_address, clock) ==
  LET last_hash == ch[Len(ch)].hash
      block == mine(Block(Len(ch), last_hash, pending, 0, 0, clock), DIFFICULTY)
      reward == Reward(minted)
      credited == [bal EXCEPT ![miner_address] = @ + reward]
  IN  [chain |-> Append(ch, block),
       balances |-> credited,
       total_minted |-> minted + reward,
       pending_tx |-> <<>>,
       block |-> block]

\* Blockchain.mine_pending of blockchain.py, up to save_state.
mine_pending(ch, pending, bal, minted, miner_address, clock) ==
  LET last_hash == ch[Len(ch)].hash
      block == mine(Block(Len(ch), last_hash, pending, 0, 0, clock), DIFFICULTY)
      reward == Reward(minted)
      credited == [bal EXCEPT ![miner_address] = @ + reward]
  IN  [chain |-> Append(ch, block),
       balances |-> ApplyTransactions(credited, pending),
       total_minted |-> minted + reward,
       pending_tx |-> <<>>,
       block |-> block]

\* is_valid_block with the comparison to the head's hash forgotten.
is_valid_block_NoPrev(ch, blk, clock) ==
  LET block == Block(blk.index, blk.prev_hash, blk.transactions,
                     blk.timestamp, blk.nonce, clock)
  IN  block.hash = blk.hash

\* is_valid_block with the comparison of the recomputed hash forgotten.
is_valid_block_NoHash(ch, blk, clock) ==
  LET block == Block(blk.index, blk.prev_hash, blk.transactions,
                     blk.timestamp, blk.nonce, clock)
  IN  block.prev_hash = ch[Len(ch)].hash

\* Blockchain.is_valid_block of blockchain.py
is_valid_block(ch, blk, clock) ==
  LET block == Block(blk.index, blk.prev_hash, blk.transactions,
                     blk.timestamp, blk.nonce, clock)
  IN  block.hash = blk.hash /\ block.prev_hash = ch[Len(ch)].hash

\* is_valid_block validating a block against the block below the height it
\* claims (chain[index-1]) instead of the head (chain[-1]).
render_is_valid_block_AtParent(ch, blk, clock) ==
  IF blk.index < 1 \/ blk.index > Len(ch) THEN FALSE
  ELSE LET prev == ch[blk.index]
       IN  IF blk.prev_hash # prev.hash THEN FALSE
           ELSE LET reconstructed == Block(blk.index, blk.prev_hash, blk.transactions,
                                           blk.timestamp, blk.nonce, clock)
                IN  reconstructed.hash = blk.hash

\* Blockchain.is_valid_block of blockchain_render.py
render_is_valid_block(ch, blk, clock) ==
  IF blk.index # Len(ch) THEN FALSE
  ELSE LET prev == ch[Len(ch)]
       IN  IF blk.prev_hash # prev.hash THEN FALSE
           ELSE LET reconstructed == Block(blk.index, blk.prev_hash, blk.transactions,
                                           blk.timestamp, blk.nonce, clock)
                IN  reconstructed.hash = blk.hash

\* ----- NETWORK -----

RECURSIVE ListOf(_)
ListOf(S) == IF S = {} THEN <<>>
             ELSE LET x == CHOOSE y \in S : TRUE IN <<x>> \o ListOf(S \ {x})

\* Blockchain.broadcast: one send per peer of list(self.peers)
broadcast(ps, typ, data) ==
  LET l == ListOf(ps)
  IN  [i \in 1 .. Len(l) |-> [to |-> l[i], type |-> typ, data |-> data]]


\* ----- state after construction -----

\* The threads of the socket node: the main thread (the CLI loop) and the
\* handler threads _accept starts, one per connection.
Handlers == {"h1", "h2"}
Threads == {"main"} \cup Handlers
NoValue == [none |-> TRUE]
\* a thread that is not inside mine_pending or the NEW_BLOCK branch of handler
Idle == [pc |-> "idle", d |-> NoValue, last_hash |-> NoValue, block |-> NoValue]

NoResult == [op |-> "none", origin |-> "none", outcome |-> "none",
             why |-> {}, rival |-> FALSE, dropped |-> 0]
Res(op, origin, outcome) == [op |-> op, origin |-> origin, outcome |-> outcome,
                             why |-> {}, rival |-> FALSE, dropped |-> 0]

\* Blockchain.__init__ with no STORAGE_FILE: load_state calls create_genesis.
Init ==
  /\ binding \in {"socket", "http"}
  /\ wallet = "A"
  /\ now = 1
  /\ chain = create_genesis(now)
  /\ pending_tx = <<>>
  /\ balances = [a \in Address |-> 0]
  /\ total_minted = 0
  /\ peers = AllPeers
  /\ outbox = <<>>
  /\ result = NoResult
  /\ threads = [t \in Threads |-> Idle]

\* time.time() advances between operations.
Tick ==
  /\ now < MaxTime
  /\ now' = now + 1
  /\ UNCHANGED <<binding, wallet, chain, pending_tx, balances, total_minted,
                 peers, outbox, result, threads>>

\* ----- what peers send -----

\* The blocks a peer may send: claiming the next height or the head's, linking
\* to the head or to what the head links to, with or without a timestamp, any nonce,
\* and a declared hash that is the digest of the block as the receiver
\* rebuilds it (honest) or the digest of some other block.
BlockCandidates ==
  LET n == Len(chain)
  IN  { LET blk == Block(f.index, f.prev_hash, f.transactions, f.timestamp,
                         f.nonce, now)
        IN  [index |-> f.index, prev_hash |-> f.prev_hash,
             timestamp |-> f.timestamp, transactions |-> f.transactions,
             nonce |-> f.nonce,
             hash |-> IF f.honest THEN blk.hash
                      ELSE compute_hash([blk EXCEPT !.nonce = @ + 1])] :
        f \in [index : {n - 1, n},
               prev_hash : {chain[n].hash, chain[n].prev_hash},
               timestamp : {0, now},
               transactions : TxLists,
               nonce : Nonces,
               honest : BOOLEAN] }

\* The reasons of section 4.3 of the specification that apply to a candidate
\* (a record of the handled message, not read by the code).
Why(d) ==
  LET block == Block(d.index, d.prev_hash, d.transactions, d.timestamp, d.nonce, now)
  IN  (IF d.index # Len(chain) THEN {"WrongIndex"} ELSE {})
      \cup (IF d.prev_hash # chain[Len(chain)].hash THEN {"WrongPrevHash"} ELSE {})
      \cup (IF block.hash # d.hash THEN {"HashMismatch"} ELSE {})
      \cup (IF d.hash.zeros < DIFFICULTY THEN {"InsufficientDifficulty"} ELSE {})

\* The candidate competes with the head: it claims the head's height, links to
\* the head's parent and is otherwise valid.
Rival(d) ==
  /\ Len(chain) >= 2
  /\ d.index = Len(chain) - 1
  /\ d.prev_hash = chain[Len(chain) - 1].hash
  /\ Why(d) \subseteq {"WrongIndex", "WrongPrevHash"}

\* dropped: how many transactions were pending when the block was accepted
BlockRes(origin, outcome, d) ==
  [op |-> "NEW_BLOCK", origin |-> origin, outcome |-> outcome,
   why |-> Why(d), rival |-> Rival(d),
   dropped |-> IF outcome = "accepted" THEN Len(pending_tx) ELSE 0]

\* d not in self.pending_tx
InPending(pending, d) == \E i \in 1 .. Len(pending) : pending[i] = d

\* ----- blockchain.py: the CLI loop and the connection handler -----

\* main: 'tx <to> <amount>' -> node.add_transaction(wallet, to, amount)
cli_tx(recipient, amount) ==
  /\ binding = "socket"
  /\ LET r == add_transaction(balances, pending_tx, wallet, recipient, amount)
     IN  /\ r.raised = "none" => Len(pending_tx) < MaxPending
         /\ pending_tx' = r.pending_tx
         /\ outbox' = IF r.raised = "none" THEN broadcast(peers, "NEW_TX", r.tx)
                      ELSE <<>>
         /\ result' = Res("add_transaction", "local",
                          IF r.raised = "none" THEN "ok" ELSE "InsufficientBalance")
  /\ UNCHANGED <<binding, wallet, chain, balances, total_minted, peers, now,
                 threads>>

\* main: 'mine' -> node.mine_pending(wallet)
cli_mine ==
  /\ binding = "socket"
  /\ Len(chain) < MaxChain
  /\ LET r == mine_pending(chain, pending_tx, balances, total_minted, wallet, now)
     IN  /\ chain' = r.chain
         /\ balances' = r.balances
         /\ total_minted' = r.total_minted
         /\ pending_tx' = r.pending_tx
         /\ outbox' = broadcast(peers, "NEW_BLOCK", r.block)
  /\ result' = Res("mine_pending", "local", "ok")
  /\ UNCHANGED <<binding, wallet, peers, now, threads>>

\* serve.handler, typ == 'NEW_TX'
handler_NEW_TX(d) ==
  /\ binding = "socket"
  /\ IF ~InPending(pending_tx, d)
     THEN LET r == add_transaction(balances, pending_tx, d.sender, d.recipient,
                                   d.amount)
          IN  /\ r.raised = "none" => Len(pending_tx) < MaxPending
              /\ pending_tx' = r.pending_tx
              /\ result' = Res("NEW_TX", "peer",
                               IF r.raised = "none" THEN "ok"
                               ELSE "InsufficientBalance")
     ELSE /\ pending_tx' = pending_tx
          /\ result' = Res("NEW_TX", "peer", "duplicate")
  /\ outbox' = <<>>
  /\ UNCHANGED <<binding, wallet, chain, balances, total_minted, peers, now,
                 threads>>

\* serve.handler: d['index'] == len(self.chain) and self.is_valid_block(d)
handler_accepts(ch, d, clock) ==
  d.index = Len(ch) /\ is_valid_block(ch, d, clock)

\* The NEW_BLOCK branch removing from pending_tx only the transactions of the
\* accepted block.
handler_NEW_BLOCK_KeepUnrelated(d) ==
  /\ binding = "socket"
  /\ IF handler_accepts(chain, d, now)
     THEN LET blk == [Block(d.index, d.prev_hash, d.transactions, d.timestamp,
                            d.nonce, now) EXCEPT !.hash = d.hash]
          IN  /\ Len(chain) < MaxChain
              /\ chain' = Append(chain, blk)
              /\ balances' = ApplyTransactions(balances, d.transactions)
              /\ total_minted' = total_minted + Reward(total_minted)
              /\ pending_tx' = SelectSeq(pending_tx,
                                         LAMBDA tx : ~InPending(d.transactions, tx))
              /\ result' = BlockRes("peer", "accepted", d)
     ELSE /\ UNCHANGED <<chain, balances, total_minted, pending_tx>>
          /\ result' = BlockRes("peer", "ignored", d)
  /\ outbox' = <<>>
  /\ UNCHANGED <<binding, wallet, peers, now, threads>>

\* serve.handler, typ == 'NEW_BLOCK'
handler_NEW_BLOCK(d) ==
  /\ binding = "socket"
  /\ IF handler_accepts(chain, d, now)
     THEN LET blk == [Block(d.index, d.prev_hash, d.transactions, d.timestamp,
                            d.nonce, now) EXCEPT !.hash = d.hash]
          IN  /\ Len(chain) < MaxChain
              /\ chain' = Append(chain, blk)
              /\ balances' = ApplyTransactions(balances, d.transactions)
              /\ total_minted' = total_minted + Reward(total_minted)
              /\ pending_tx' = <<>>
              /\ result' = BlockRes("peer", "accepted", d)
     ELSE /\ UNCHANGED <<chain, balances, total_minted, pending_tx>>
          /\ result' = BlockRes("peer", "ignored", d)
  /\ outbox' = <<>>
  /\ UNCHANGED <<binding, wallet, peers, now, threads>>

\* ----- blockchain_render.py: the Flask routes -----

\* Blockchain.mine_pending of blockchain_render.py: its Block class defines no
\* mine method, so block.mine(DIFFICULTY) raises AttributeError before anything
\* is changed.
render_mine_pending(ch, pending, bal, minted, miner_address, clock) ==
  [raised |-> "AttributeError", chain |-> ch, balances |-> bal,
   total_minted |-> minted, pending_tx |-> pending]

\* POST /tx, from a client of this node (origin "local") or from a peer's
\* broadcast (origin "peer"): the route cannot tell them apart.
new_tx(origin, data) ==
  /\ binding = "http"
  /\ LET r == add_transaction(balances, pending_tx, data.sender, data.recipient,
                              data.amount)
     IN  /\ r.raised = "none" => Len(pending_tx) < MaxPending
         /\ pending_tx' = r.pending_tx
         /\ outbox' = IF r.raised = "none" THEN broadcast(peers, "NEW_TX", r.tx)
                      ELSE <<>>
         /\ result' = Res("NEW_TX", origin,
                          IF r.raised = "none" THEN "ok" ELSE "InsufficientBalance")
  /\ UNCHANGED <<binding, wallet, chain, balances, total_minted, peers, now,
                 threads>>

\* POST /mine
route_mine(miner) ==
  /\ binding = "http"
  /\ Len(chain) < MaxChain
  /\ LET r == render_mine_pending(chain, pending_tx, balances, total_minted,
                                  miner, now)
     IN  /\ chain' = r.chain
         /\ balances' = r.balances
         /\ total_minted' = r.total_minted
         /\ pending_tx' = r.pending_tx
         /\ outbox' = IF r.raised = "none"
                      THEN broadcast(peers, "NEW_BLOCK", r.chain[Len(r.chain)])
                      ELSE <<>>
         /\ result' = Res("mine_pending", "local",
                          IF r.raised = "none" THEN "ok" ELSE r.raised)
  /\ UNCHANGED <<binding, wallet, peers, now, threads>>

\* POST /block
new_block(blk) ==
  /\ binding = "http"
  /\ IF render_is_valid_block(chain, blk, now)
     THEN /\ Len(chain) < MaxChain
          /\ chain' = Append(chain, Block(blk.index, blk.prev_hash, blk.transactions,
                                          blk.timestamp, blk.nonce, now))
          /\ balances' = ApplyTransactions(balances, blk.transactions)
          /\ total_minted' = total_minted + Reward(total_minted)
          /\ pending_tx' = <<>>
          /\ result' = BlockRes("peer", "accepted", blk)
     ELSE /\ UNCHANGED <<chain, balances, total_minted, pending_tx>>
          /\ result' = BlockRes("peer", "ignored", blk)
  /\ outbox' = <<>>
  /\ UNCHANGED <<binding, wallet, peers, now, threads>>

Next ==
  \/ Tick
  \/ \E t \in Tx : t.sender = wallet /\ cli_tx(t.recipient, t.amount)
  \/ cli_mine
  \/ \E d \in Tx : handler_NEW_TX(d)
  \/ \E d \in BlockCandidates : handler_NEW_BLOCK(d)
  \/ \E o \in {"local", "peer"}, d \in Tx : new_tx(o, d)
  \/ \E m \in Address : route_mine(m)
  \/ \E d \in BlockCandidates : new_block(d)

Spec == Init /\ [][Next]_vars


\* Blockchain.__init__ with a STORAGE_FILE: load_state takes total_minted from
\* the snapshot, here one whose total_minted is two coins below MAX_SUPPLY.
InitSnapshot ==
  /\ binding \in {"socket", "http"}
  /\ wallet = "A"
  /\ now = 1
  /\ chain = create_genesis(now)
  /\ pending_tx = <<>>
  /\ balances = [a \in Address |-> 0]
  /\ total_minted = MAX_SUPPLY - 8
  /\ peers = AllPeers
  /\ outbox = <<>>
  /\ result = NoResult
  /\ threads = [t \in Threads |-> Idle]

SpecSnapshot == InitSnapshot /\ [][Next]_vars

\* ----- the socket node of the worked scenarios -----

\* The payments of the scenarios: 10, 5 and 3 coins from A to B.
ScenarioTx == { [sender |-> "A", recipient |-> "B", amount |-> 40],
                [sender |-> "A", recipient |-> "B", amount |-> 20],
                [sender |-> "A", recipient |-> "B", amount |-> 12] }

\* main of blockchain.py with --wallet A or --wallet B, no STORAGE_FILE.
InitScenario ==
  /\ binding = "socket"
  /\ wallet \in Address
  /\ now = 1
  /\ chain = create_genesis(now)
  /\ pending_tx = <<>>
  /\ balances = [a \in Address |-> 0]
  /\ total_minted = 0
  /\ peers = AllPeers
  /\ outbox = <<>>
  /\ result = NoResult
  /\ threads = [t \in Threads |-> Idle]

NextScenario ==
  \/ Tick
  \/ \E t \in ScenarioTx : t.sender = wallet /\ cli_tx(t.recipient, t.amount)
  \/ cli_mine
  \/ \E d \in ScenarioTx : handler_NEW_TX(d)
  \/ \E d \in BlockCandidates : handler_NEW_BLOCK(d)

SpecScenario == InitScenario /\ [][NextScenario]_vars

\* ----- blockchain.py statement by statement: no lock is taken anywhere -----

\* The socket node with its threads interleaved between the statements that
\* read or write the Blockchain's fields.  The main thread runs mine_pending;
\* each handler thread runs serve.handler on one received message.

\* the payment peers send while the node mines
ThreadTx == { [sender |-> "A", recipient |-> "B", amount |-> 20] }

\* The blocks peers send: self-consistent blocks linking to the head, for the
\* next height or the head's.
ThreadBlocks ==
  { d \in BlockCandidates :
      /\ d.prev_hash = chain[Len(chain)].hash
      /\ d.timestamp = now /\ d.nonce = 0 /\ d.transactions = <<>>
      /\ "HashMismatch" \notin Why(d) }

\* mine_pending, line 74: last_hash = self.chain[-1].hash
mine_read_head ==
  /\ threads["main"].pc = "idle"
  /\ Len(chain) < MaxChain
  /\ threads' = [threads EXCEPT !["main"] =
                   [Idle EXCEPT !.pc = "block", !.last_hash = chain[Len(chain)].hash]]
  /\ UNCHANGED <<binding, wallet, chain, pending_tx, balances, total_minted,
                 peers, now, outbox, result>>

\* mine_pending, lines 75-76: Block(len(self.chain), last_hash,
\* list(self.pending_tx)) and block.mine(DIFFICULTY)
mine_build_block ==
  /\ threads["main"].pc = "block"
  /\ threads' = [threads EXCEPT !["main"].pc = "append",
                                !["main"].block =
                                  mine(Block(Len(chain), threads["main"].last_hash,
                                             pending_tx, 0, 0, now), DIFFICULTY)]
  /\ UNCHANGED <<binding, wallet, chain, pending_tx, balances, total_minted,
                 peers, now, outbox, result>>

\* mine_pending, line 77: self.chain.append(block)
mine_append ==
  /\ threads["main"].pc = "append"
  /\ Len(chain) < MaxChain
  /\ chain' = Append(chain, threads["main"].block)
  /\ threads' = [threads EXCEPT !["main"].pc = "reward"]
  /\ UNCHANGED <<binding, wallet, pending_tx, balances, total_minted,
                 peers, now, outbox, result>>

\* mine_pending, lines 78-80: the reward
mine_reward ==
  /\ threads["main"].pc = "reward"
  /\ balances' = [balances EXCEPT ![wallet] = @ + Reward(total_minted)]
  /\ total_minted' = total_minted + Reward(total_minted)
  /\ threads' = [threads EXCEPT !["main"].pc = "apply"]
  /\ UNCHANGED <<binding, wallet, chain, pending_tx, peers, now, outbox, result>>

\* mine_pending, lines 81-83: for tx in self.pending_tx, the list as it is now
mine_apply ==
  /\ threads["main"].pc = "apply"
  /\ balances' = ApplyTransactions(balances, pending_tx)
  /\ threads' = [threads EXCEPT !["main"].pc = "clear"]
  /\ UNCHANGED <<binding, wallet, chain, pending_tx, total_minted,
                 peers, now, outbox, result>>

\* mine_pending, lines 84-88: self.pending_tx = [], save_state, broadcast
mine_clear ==
  /\ threads["main"].pc = "clear"
  /\ pending_tx' = <<>>
  /\ outbox' = broadcast(peers, "NEW_BLOCK", threads["main"].block)
  /\ result' = Res("mine_pending", "local", "ok")
  /\ threads' = [threads EXCEPT !["main"] = Idle]
  /\ UNCHANGED <<binding, wallet, chain, balances, total_minted, peers, now>>

\* serve.handler, typ == 'NEW_BLOCK', line 128: the test of the received block
block_test(t, d) ==
  /\ threads[t].pc = "idle"
  /\ IF handler_accepts(chain, d, now)
     THEN /\ threads' = [threads EXCEPT ![t] = [Idle EXCEPT !.pc = "append", !.d = d]]
          /\ UNCHANGED result
     ELSE /\ UNCHANGED threads
          /\ result' = BlockRes("peer", "ignored", d)
  /\ outbox' = <<>>
  /\ UNCHANGED <<binding, wallet, chain, pending_tx, balances, total_minted,
                 peers, now>>

\* serve.handler, lines 129-132: self.chain.append(blk)
block_append(t) ==
  /\ threads[t].pc = "append"
  /\ Len(chain) < MaxChain
  /\ LET d == threads[t].d
         blk == [Block(d.index, d.prev_hash, d.transactions, d.timestamp,
                       d.nonce, now) EXCEPT !.hash = d.hash]
     IN  chain' = Append(chain, blk)
  /\ threads' = [threads EXCEPT ![t].pc = "apply"]
  /\ UNCHANGED <<binding, wallet, pending_tx, balances, total_minted,
                 peers, now, outbox, result>>

\* serve.handler, lines 133-136: the block's transactions and total_minted
block_apply(t) ==
  /\ threads[t].pc = "apply"
  /\ balances' = ApplyTransactions(balances, threads[t].d.transactions)
  /\ total_minted' = total_minted + Reward(total_minted)
  /\ threads' = [threads EXCEPT ![t].pc = "clear"]
  /\ UNCHANGED <<binding, wallet, chain, pending_tx, peers, now, outbox, result>>

\* serve.handler, lines 137-138: self.pending_tx = [], save_state
block_clear(t) ==
  /\ threads[t].pc = "clear"
  /\ pending_tx' = <<>>
  /\ result' = [op |-> "NEW_BLOCK", origin |-> "peer", outcome |-> "accepted",
                why |-> {}, rival |-> FALSE, dropped |-> Len(pending_tx)]
  /\ outbox' = <<>>
  /\ threads' = [threads EXCEPT ![t] = Idle]
  /\ UNCHANGED <<binding, wallet, chain, balances, total_minted, peers, now>>

InitThreads ==
  /\ binding = "socket"
  /\ wallet = "A"
  /\ now = 1
  /\ chain = create_genesis(now)
  /\ pending_tx = <<>>
  /\ balances = [a \in Address |-> 0]
  /\ total_minted = 0
  /\ peers = AllPeers
  /\ outbox = <<>>
  /\ result = NoResult
  /\ threads = [t \in Threads |-> Idle]

\* A NEW_TX is handled by a thread of its own, in one step of that thread.
NextThreads ==
  \/ mine_read_head
  \/ mine_build_block
  \/ mine_append
  \/ mine_reward
  \/ mine_apply
  \/ mine_clear
  \/ \E t \in Handlers, d \in ThreadBlocks : block_test(t, d)
  \/ \E t \in Handlers : block_append(t)
  \/ \E t \in Handlers : block_apply(t)
  \/ \E t \in Handlers : block_clear(t)
  \/ \E d \in ThreadTx : handler_NEW_TX(d)

SpecThreads == InitThreads /\ [][NextThreads]_vars

\* ----- two nodes started without a snapshot -----

\* The first block of another socket node that started without a snapshot
\* when its clock read start, and mined on an empty pending_tx at clock.
FreshPeerBlocks ==
  { mine_pending(create_genesis(f.start), <<>>, [a \in Address |-> 0], 0,
                 f.miner, f.clock).block :
      f \in { g \in [start : 1 .. MaxTime, clock : 1 .. MaxTime, miner : {"B"}] :
                g.start <= g.clock } }

\* This node starts at any reading of the clock.
InitFresh ==
  /\ binding = "socket"
  /\ wallet = "A"
  /\ now \in 1 .. MaxTime
  /\ chain = create_genesis(now)
  /\ pending_tx = <<>>
  /\ balances = [a \in Address |-> 0]
  /\ total_minted = 0
  /\ peers = AllPeers
  /\ outbox = <<>>
  /\ result = NoResult
  /\ threads = [t \in Threads |-> Idle]

NextFresh ==
  \/ Tick
  \/ \E t \in Tx : t.sender = wallet /\ cli_tx(t.recipient, t.amount)
  \/ cli_mine
  \/ \E d \in Tx : handler_NEW_TX(d)
  \/ \E d \in FreshPeerBlocks : handler_NEW_BLOCK(d)

SpecFresh == InitFresh /\ [][NextFresh]_vars

\* ----- the HTTP node that is its own peer -----

\* args.public: the node's own URL, which main registers as a peer.
public == "self"

\* the payment a client submits
GossipTx == { [sender |-> "A", recipient |-> "B", amount |-> 20] }

\* The POSTs of the last broadcast that are addressed to this node and not
\* yet handled by it.
InFlight == { i \in 1 .. Len(outbox) : outbox[i].to = public }

\* main of blockchain_render.py with --public: node.register_peer(args.public)
InitGossip ==
  /\ binding = "http"
  /\ wallet = "A"
  /\ now = 1
  /\ chain = create_genesis(now)
  /\ pending_tx = <<>>
  /\ balances = [a \in Address |-> 0]
  /\ total_minted = 0
  /\ peers = {"p1", public}
  /\ outbox = <<>>
  /\ result = NoResult
  /\ threads = [t \in Threads |-> Idle]

\* A client POSTs /tx with a transaction that is not pending, while nothing is
\* in flight.
client_tx(t) ==
  /\ InFlight = {}
  /\ ~InPending(pending_tx, t)
  /\ new_tx("local", t)

\* requests.post(url, json=data) of broadcast reaches this node's own /tx route.
deliver_tx ==
  \E i \in InFlight :
    /\ outbox[i].type = "NEW_TX"
    /\ new_tx("peer", outbox[i].data)

\* A peer POSTs /block while nothing is in flight.
peer_block(d) ==
  /\ InFlight = {}
  /\ new_block(d)

NextGossip ==
  \/ Tick
  \/ \E t \in GossipTx : client_tx(t)
  \/ deliver_tx
  \/ \E d \in BlockCandidates : peer_block(d)

SpecGossip == InitGossip /\ [][NextGossip]_vars

\* ----- the operations as the claims name them -----

\* A block is mined by miner m: the step of mine_pending that appends it.
Mined(m) ==
  /\ \/ (m = wallet /\ cli_mine)
     \/ route_mine(m)
  /\ chain' # chain

\* minePending(m) is called, in either binding.
MineCalled(m) == (m = wallet /\ cli_mine) \/ route_mine(m)

\* submitTransaction(t) is called: the CLI's tx command, or POST /tx.
Submitted(t) ==
  \/ (t.sender = wallet /\ cli_tx(t.recipient, t.amount))
  \/ \E o \in {"local", "peer"} : new_tx(o, t)

\* submitTransaction(t) is called by a local client.
LocalSubmitted(t) ==
  \/ (t.sender = wallet /\ cli_tx(t.recipient, t.amount))
  \/ new_tx("local", t)

\* A peer's NEW_TX(d) is handled.
ReceivedTx(d) == handler_NEW_TX(d) \/ new_tx("peer", d)

\* A peer's NEW_BLOCK is handled exactly in the steps that end with result.op =
\* "NEW_BLOCK" (Tick alone keeps result, and changes nothing else but now);
\* result.why then holds what section 4.3 finds wrong with the handled block.

\* ----- C1 -----
\* C1: chain linkage.  In every reachable state, every block above the genesis
\* carries its own position as index and the hash of the block below it as
\* prev_hash (chain[i] of the source is chain[i+1] here).
C1_ChainLinkage ==
  \A i \in 2 .. Len(chain) :
    /\ chain[i].index = i - 1
    /\ chain[i].prev_hash = chain[i - 1].hash

\* A full chain whose last block came from a peer.
C1_Witness ==
  /\ Len(chain) = MaxChain
  /\ result.op = "NEW_BLOCK" /\ result.outcome = "accepted"

\* ----- C2 -----
\* C2: proof of work on the committed chain.  Every non-genesis block of the
\* chain has a hash with at least DIFFICULTY leading zeros, so that a peer's
\* block whose declared hash has fewer is never appended.
C2_ProofOfWork ==
  \A i \in 2 .. Len(chain) : chain[i].hash.zeros >= DIFFICULTY

\* ----- C3 -----
\* C3: supply cap.  No step decreases total_minted or takes it above
\* MAX_SUPPLY, and a step that mines a block for miner m adds
\* min(BLOCK_REWARD, MAX_SUPPLY - total_minted) to total_minted and, on top of
\* the block's transactions, to m's balance: 2 coins from MAX_SUPPLY - 2, and
\* nothing once total_minted is MAX_SUPPLY.
C3_SupplyStep ==
  /\ total_minted <= total_minted'
  /\ total_minted' <= MAX_SUPPLY
  /\ \A m \in Address :
       Mined(m) =>
         LET reward == Min(BLOCK_REWARD, MAX_SUPPLY - total_minted)
             moved == ApplyTransactions(balances, pending_tx)
         IN  /\ total_minted' = total_minted + reward
             /\ balances'[m] = moved[m] + reward
             /\ total_minted = MAX_SUPPLY - 8 =>
                  reward = 8 /\ total_minted' = MAX_SUPPLY
             /\ total_minted = MAX_SUPPLY =>
                  total_minted' = MAX_SUPPLY /\ balances'[m] = moved[m]

\* C3: every step is a C3_SupplyStep.
C3_SupplyCap == [][C3_SupplyStep]_vars

\* Two blocks mined from the snapshot: the first credited 2 coins and reached
\* MAX_SUPPLY, the second credited nothing.
C3_Witness ==
  /\ total_minted = MAX_SUPPLY
  /\ Len(chain) = 3
  /\ result.op = "mine_pending" /\ result.outcome = "ok"
  /\ chain[2].transactions = <<>> /\ chain[3].transactions = <<>>
  /\ balances[wallet] = 8

\* ----- C4 -----
\* replay of blocks i..Len(ch) on the balances bal, with minted coins so far,
\* the reward of block j credited to ms[j]
RECURSIVE ReplayFrom(_, _, _, _, _)
ReplayFrom(ch, ms, i, bal, minted) ==
  IF i > Len(ch) THEN bal
  ELSE LET reward == Min(BLOCK_REWARD, MAX_SUPPLY - minted)
           credited == [bal EXCEPT ![ms[i]] = @ + reward]
       IN  ReplayFrom(ch, ms, i + 1,
                      ApplyTransactions(credited, ch[i].transactions),
                      minted + reward)

Replay(ch, ms) == ReplayFrom(ch, ms, 2, [a \in Address |-> 0], 0)

\* C4: ledger replay.  The balance map is what replaying the committed chain
\* from genesis gives: every block's transactions, and for every non-genesis
\* block the capped reward credited to its miner (the chain does not name the
\* miners, so: for some choice of a miner for each block).
C4_LedgerReplay ==
  \E ms \in [2 .. Len(chain) -> Address] : balances = Replay(chain, ms)

\* ----- C5 -----
\* C5: submitTransaction(t) fails with InsufficientBalance exactly when the
\* sender's balance is below the amount, and then changes nothing; otherwise it
\* appends t to the end of pending_tx and changes no balance.
C5_SubmitStep ==
  \A t \in Tx :
    Submitted(t) =>
      IF balances[t.sender] < t.amount
      THEN /\ result'.outcome = "InsufficientBalance"
           /\ UNCHANGED <<pending_tx, chain, total_minted, balances>>
      ELSE /\ result'.outcome = "ok"
           /\ pending_tx' = Append(pending_tx, t)
           /\ UNCHANGED <<chain, total_minted, balances>>

\* C5: every step is a C5_SubmitStep.
C5_Submit == [][C5_SubmitStep]_vars

\* A local submission was just refused while an earlier one is pending.
C5_Witness ==
  /\ result.origin = "local"
  /\ result.outcome = "InsufficientBalance"
  /\ pending_tx # <<>>

\* ----- C6 -----
\* C6: a peer's block whose prev_hash is not the head's hash (WrongPrevHash),
\* or whose declared hash is not the one the receiver recomputes (HashMismatch),
\* is ignored: handling it changes neither the chain nor the ledger, pending_tx
\* or total_minted, and sends nothing.
C6_RejectStep ==
  (/\ result'.op = "NEW_BLOCK"
   /\ result'.why \cap {"WrongPrevHash", "HashMismatch"} # {})
  => /\ UNCHANGED <<chain, balances, pending_tx, total_minted>>
     /\ result'.outcome = "ignored"
     /\ outbox' = <<>>

C7_NoReorgStep ==
  /\ Len(chain') \in {Len(chain), Len(chain) + 1}
  /\ \A i \in 1 .. Len(chain) : chain'[i] = chain[i]
  /\ (result'.op = "NEW_BLOCK" /\ "WrongIndex" \in result'.why) =>
          /\ chain' = chain
          /\ result'.outcome = "ignored"

\* C7: every step is a C7_NoReorgStep.
C7_SameHeightRace == [][C7_NoReorgStep]_vars

\* A second, otherwise valid block for the head's height was just ignored.
C7_Witness ==
  /\ result.op = "NEW_BLOCK" /\ result.outcome = "ignored"
  /\ result.rival
  /\ "WrongIndex" \in result.why

\* ----- C8 -----
\* C8: minePending(m) completes in both bindings and appends one block with
\* the next index, the head's hash and the pending transactions, applies the
\* transactions and the capped reward, and empties pending_tx.
C8_MineStep ==
  \A m \in Address :
    MineCalled(m) =>
      LET reward == Min(BLOCK_REWARD, MAX_SUPPLY - total_minted)
          credited == [balances EXCEPT ![m] = @ + reward]
      IN  /\ result'.outcome = "ok"
          /\ Len(chain') = Len(chain) + 1
          /\ chain'[Len(chain')].index = Len(chain)
          /\ chain'[Len(chain')].prev_hash = chain[Len(chain)].hash
          /\ chain'[Len(chain')].transactions = pending_tx
          /\ balances' = ApplyTransactions(credited, pending_tx)
          /\ total_minted' = total_minted + reward
          /\ pending_tx' = <<>>

\* C8: every step is a C8_MineStep.
C8_MineBothBindings == [][C8_MineStep]_vars

\* ----- C9 -----
\* C9: a peer's transaction equal to one in pending_tx leaves pending_tx as it
\* is; any other goes through submitTransaction (that nothing is broadcast is
\* the statement of C10).
C9_DedupStep ==
  \A d \in Tx :
    ReceivedTx(d) =>
      IF InPending(pending_tx, d)
      THEN pending_tx' = pending_tx
      ELSE pending_tx' = IF balances[d.sender] < d.amount THEN pending_tx
                         ELSE Append(pending_tx, d)

\* C9: every step is a C9_DedupStep.
C9_NewTxDedup == [][C9_DedupStep]_vars

\* ----- C10 -----
\* C10: one-hop propagation.  Handling a peer's transaction or block sends
\* nothing; a local submission that is accepted, and a block mined locally, is
\* sent once to every peer.
C10_HopStep ==
  /\ \A d \in Tx : ReceivedTx(d) => outbox' = <<>>
  /\ result'.op = "NEW_BLOCK" => outbox' = <<>>
  /\ \A t \in Tx :
       (LocalSubmitted(t) /\ result'.outcome = "ok") =>
          /\ Len(outbox') = Cardinality(peers)
          /\ \A p \in peers : \E i \in 1 .. Len(outbox') :
               outbox'[i] = [to |-> p, type |-> "NEW_TX", data |-> t]
  /\ \A m \in Address : Mined(m) =>
          /\ Len(outbox') = Cardinality(peers)
          /\ \A p \in peers : \E i \in 1 .. Len(outbox') :
               outbox'[i] = [to |-> p, type |-> "NEW_BLOCK",
                             data |-> chain'[Len(chain')]]

\* C10: every step is a C10_HopStep.
C10_OneHop == [][C10_HopStep]_vars

\* ----- C11 -----
\* C11: the worked scenario of the socket node with wallet A, step by step from
\* the fresh genesis chain.  (1) With an empty ledger, tx B 10 is refused with
\* InsufficientBalance and changes nothing.  (2) mine on the empty pending_tx
\* gives balances[A] = 6.25, total_minted = 6.25 and a chain of 2 blocks.
\* (3) From there tx B 5 is accepted into pending_tx.  (4) mine again gives
\* balances[A] = 7.5, balances[B] = 5, total_minted = 12.5, a chain of 3 blocks
\* and an empty pending_tx.
C11_Fresh ==
  /\ wallet = "A" /\ Len(chain) = 1 /\ total_minted = 0
  /\ balances = [a \in Address |-> 0]

C11_AfterFirstMine ==
  /\ wallet = "A" /\ Len(chain) = 2 /\ total_minted = 25
  /\ balances = [a \in Address |-> IF a = "A" THEN 25 ELSE 0]

C11_ScenarioStep ==
  /\ (C11_Fresh /\ cli_tx("B", 40)) =>
        /\ result'.outcome = "InsufficientBalance"
        /\ UNCHANGED <<chain, pending_tx, balances, total_minted>>
  /\ (C11_Fresh /\ pending_tx = <<>> /\ cli_mine) => C11_AfterFirstMine'
  /\ (C11_AfterFirstMine /\ pending_tx = <<>> /\ cli_tx("B", 20)) =>
        /\ result'.outcome = "ok"
        /\ pending_tx' = << [sender |-> "A", recipient |-> "B", amount |-> 20] >>
        /\ UNCHANGED <<chain, balances, total_minted>>
  /\ (/\ C11_AfterFirstMine
      /\ pending_tx = << [sender |-> "A", recipient |-> "B", amount |-> 20] >>
      /\ cli_mine) =>
        /\ balances' = [a \in Address |-> IF a = "A" THEN 30 ELSE 20]
        /\ total_minted' = 50
        /\ Len(chain') = 3
        /\ pending_tx' = <<>>

\* C11: every step is a C11_ScenarioStep.
C11_EndToEnd == [][C11_ScenarioStep]_vars

\* The end of the scenario: two blocks mined by A, the first empty, the second
\* with the payment of 5 coins.
C11_Witness ==
  /\ wallet = "A" /\ Len(chain) = 3
  /\ result.op = "mine_pending" /\ result.outcome = "ok"
  /\ chain[2].transactions = <<>>
  /\ chain[3].transactions = << [sender |-> "A", recipient |-> "B", amount |-> 20] >>
  /\ balances = [a \in Address |-> IF a = "A" THEN 30 ELSE 20]
  /\ total_minted = 50 /\ pending_tx = <<>>

\* ----- C12 -----
\* C12: pending_tx reserves no balance.  A submission (tx of the CLI, or a
\* peer's NEW_TX not yet in pending_tx) is accepted exactly when the sender's
\* committed balance covers its amount, whatever pending_tx holds; so two
\* payments of one sender, each within the balance and together above it, are
\* both pending, and mine by a wallet other than the sender then leaves the
\* sender's balance negative.
C12_NoReserveStep ==
  /\ \A t \in ScenarioTx :
       (\/ (t.sender = wallet /\ cli_tx(t.recipient, t.amount))
        \/ (~InPending(pending_tx, t) /\ handler_NEW_TX(t))) =>
         /\ (result'.outcome = "ok") = (balances[t.sender] >= t.amount)
         /\ (result'.outcome = "ok") = (pending_tx' = Append(pending_tx, t))
  /\ \A s \in Address :
       (/\ cli_mine
        /\ s # wallet
        /\ Len(pending_tx) = 2
        /\ \A i \in 1 .. 2 : /\ pending_tx[i].sender = s
                              /\ pending_tx[i].recipient # s
                              /\ pending_tx[i].amount <= balances[s]
        /\ pending_tx[1].amount + pending_tx[2].amount > balances[s]) =>
         /\ balances'[s] = balances[s] - pending_tx[1].amount - pending_tx[2].amount
         /\ balances'[s] < 0

\* C12: every step is a C12_NoReserveStep.
C12_NoReservation == [][C12_NoReserveStep]_vars

\* A held 5 coins, its payments of 5 and 3 coins were both pending, and wallet
\* B mined them: A is 3 coins below zero.
C12_Witness ==
  /\ wallet = "B"
  /\ result.op = "mine_pending"
  /\ Len(chain[Len(chain)].transactions) = 2
  /\ balances["A"] = -12

\* ----- C13 -----
\* C13: chain linkage with the threads interleaved.  In every reachable state
\* no two blocks of the chain carry the same index (one block per height),
\* every block carries its position as index, and every block above the
\* genesis carries the hash of the block below it as prev_hash.
C13_LinkageUnderConcurrency ==
  /\ \A i, j \in 1 .. Len(chain) : i # j => chain[i].index # chain[j].index
  /\ \A i \in 1 .. Len(chain) :
       /\ chain[i].index = i - 1
       /\ i > 1 => chain[i].prev_hash = chain[i - 1].hash

\* ----- C14 -----
\* C14: the mining snapshot with the threads interleaved.  The loop of
\* mine_pending debits and credits exactly the transactions of the block being
\* mined, in list order; a transaction that entered pending_tx after the
\* block was built changes no balance, and is dropped when pending_tx is
\* cleared.
C14_SnapshotStep ==
  /\ mine_apply =>
       balances' = ApplyTransactions(balances, threads["main"].block.transactions)
  /\ mine_clear => pending_tx' = <<>> /\ balances' = balances

\* C14: every step is a C14_SnapshotStep.
C14_MiningSnapshot == [][C14_SnapshotStep]_vars

\* ----- C15 -----
\* C15: accepting a peer's block, in either binding, leaves pending_tx empty
\* whatever it held, and moves the balances by the transactions of the
\* accepted block alone: the transactions that were pending and are not in the
\* block change no balance.  (The steps that handle a peer's block are those
\* that end with result.op = "NEW_BLOCK" and leave the clock as it is.)
C15_ClearStep ==
  (now' = now /\ result'.op = "NEW_BLOCK" /\ result'.outcome = "accepted") =>
     /\ pending_tx' = <<>>
     /\ Len(chain') = Len(chain) + 1
     /\ balances' = ApplyTransactions(balances, chain'[Len(chain')].transactions)

\* C15: every step is a C15_ClearStep.
C15_InboundClearsMempool == [][C15_ClearStep]_vars

\* A block without transactions was just accepted while transactions were
\* pending: they are gone and the ledger is as it was.
C15_Witness ==
  /\ result.op = "NEW_BLOCK" /\ result.outcome = "accepted"
  /\ result.dropped > 0
  /\ chain[Len(chain)].transactions = <<>>
  /\ pending_tx = <<>>
  /\ balances = [a \in Address |-> 0]

\* ----- C16 -----
\* C16: the chain is append-only.  A step leaves the chain as it is or puts
\* exactly one block after the blocks it held, which all stay as they were;
\* and the first block is the genesis block: index 0, prev_hash '0'*64, no
\* transactions.
C16_AppendStep ==
  /\ \/ chain' = chain
     \/ /\ Len(chain') = Len(chain) + 1
        /\ SubSeq(chain', 1, Len(chain)) = chain
  /\ chain[1].index = 0 /\ chain'[1].index = 0
  /\ chain[1].prev_hash = ZeroHash /\ chain'[1].prev_hash = ZeroHash
  /\ chain[1].transactions = <<>> /\ chain'[1].transactions = <<>>

\* C16: every step is a C16_AppendStep.
C16_AppendOnly == [][C16_AppendStep]_vars

\* A chain grown to its bound by a peer's block and then a block mined here,
\* the genesis block still below them.
C16_Witness ==
  /\ Len(chain) = MaxChain
  /\ result.op = "mine_pending" /\ result.outcome = "ok"
  /\ chain[1] = create_genesis(1)[1]
  /\ total_minted > balances["A"] + balances["B"]

\* ----- C17 -----
RECURSIVE SumOver(_, _)
SumOver(bal, S) ==
  IF S = {} THEN 0
  ELSE LET a == CHOOSE x \in S : TRUE IN bal[a] + SumOver(bal, S \ {a})

\* C17: conservation of supply.  In every reachable state the balances of
\* all addresses add up to total_minted.
C17_Conservation == SumOver(balances, Address) = total_minted

\* ----- C20 -----
\* C20: no transaction with a negative amount is in pending_tx or in a block
\* of the chain (the transactions of the blocks are those applied to the
\* ledger).
C20_NonNegativeAmounts ==
  /\ \A i \in 1 .. Len(pending_tx) : pending_tx[i].amount >= 0
  /\ \A i \in 1 .. Len(chain) :
       \A k \in 1 .. Len(chain[i].transactions) :
         chain[i].transactions[k].amount >= 0

\* ----- C18 -----
\* C18: shared genesis.  Whenever a node that started without a snapshot and
\* still holds only its genesis block handles the first block of another
\* node that started without a snapshot, at whatever time, that block links
\* to a genesis hash equal to this node's and is accepted.
C18_SharedGenesisStep ==
  \A d \in FreshPeerBlocks :
    (Len(chain) = 1 /\ handler_NEW_BLOCK(d)) =>
       /\ d.prev_hash = chain[1].hash
       /\ result'.outcome = "accepted"
       /\ chain' = Append(chain, d)

\* C18: every step is a C18_SharedGenesisStep.
C18_SharedGenesis == [][C18_SharedGenesisStep]_vars

\* ----- C19 -----
\* C19: quiescence of /tx propagation at an HTTP node that is its own peer.
\* Clients submit a transaction only while it is not pending and nothing is in
\* flight.  Propagation only appends to pending_tx, so if it ends with every
\* submitted transaction at most once in pending_tx, then no reachable state
\* holds a transaction twice in pending_tx.
C19_Quiescence ==
  \A i, j \in 1 .. Len(pending_tx) : i # j => pending_tx[i] # pending_tx[j]

====
